---- MODULE Spec2Model ----
(***************************************************************************)
(* Model of Jumpropebot.py: the user record kept in the "users" table, the *)
(* webhook message handler (handle_message), the challenge composer        *)
(* (create_challenge_message) with its storage helpers, and the /settings  *)
(* POST handler.  Every storage call (select / insert / update) and every  *)
(* clock read is one atomic step; handlers of different requests           *)
(* interleave freely between such steps.                                   *)
(*                                                                         *)
(* The source's Japanese literals are written in ASCII here:               *)
(*   levels   beginner / intermediate / advanced / elite  (USER_LEVELS)    *)
(*   tones    intense / gentle / strict / friendly / calm                  *)
(*            (COACH_PERSONALITIES)                                        *)
(*   texts    settei, ranking, imasugu, dekita, seikou, muzukashikatta,    *)
(*            muri, tomodachi_ni_shoukai, shoukai  (command texts of       *)
(*            handle_message), other (any unrecognised text)               *)
(* Dates ("%Y-%m-%d" strings in the source) are day ordinals 1, 2, ...;    *)
(* NoDate stands for a NULL date column.                                   *)
(***************************************************************************)
EXTENDS Integers, Sequences, FiniteSets, TLC

\* ------------------------------------------------------------------ bounds
\* Days modelled; requests received in a sequential run; events (requests
\* received and midnights passed) in a run with concurrent handlers.
MaxDay == 4
MaxSeq == 5
MaxConc == 4
\* Requests received in a sequential run on a failing store.
MaxFail == 2
\* The largest stored count, and the largest stored streak, of a record the
\* composer is called on.
MaxCount == 10
MaxStreak == 110
\* Settings forms posted in a sequential run, and the length of the longest
\* name posted.
MaxSet == 3
MaxName == 12
\* Requests received in a run of two users with concurrent handlers.
MaxUsers == 2
\* On-demand requests received within one day with concurrent handlers.
MaxDayReq == 2

\* --------------------------------------------------------- program values
Users == {"u1", "u2"}
Procs == {"h1", "h2"}

NoDate == 0
DailyLimit == 3
SupportThreshold == 3
MilestoneInterval == 10
MilestoneCap == 100
NicknameMax == 10

KnownLevels == {"beginner", "intermediate", "advanced", "elite"}
KnownTones == {"intense", "gentle", "strict", "friendly", "calm"}

\* A NULL text column / Python None for a string value.
None == "None"

\* A challenge text: how it was produced, the variant or the fallback key,
\* and the milestone block appended to it (0: none).
NoText == [kind |-> "null", a |-> "", b |-> "", ms |-> 0]

\* A NULL nickname; a nickname is otherwise a sequence of code points.
NoName == <<0>>

NoRow == [exists |-> FALSE]

\* The row of a user as the insert of get_user_settings leaves it: the
\* columns the insert does not name take the table's defaults.
NewRow(lv, tone, nick) ==
    [exists |-> TRUE,
     nickname |-> nick,
     level |-> lv,
     coach_personality |-> tone,
     delivery_count |-> 0,
     success_count |-> 0,
     difficulty_count |-> 0,
     support_shown |-> 0,
     last_challenge |-> NoText,
     immediate_request_count |-> 0,
     last_immediate_request_date |-> NoDate,
     streak_days |-> 0,
     last_challenge_date |-> NoDate,
     received_welcome_stamp |-> 0]

\* The dict get_user_settings returns on a new user and on a failed read.
DefaultSettings ==
    [level |-> "beginner",
     nickname |-> NoName,
     coach_personality |-> "gentle",
     delivery_count |-> 0,
     success_count |-> 0,
     difficulty_count |-> 0,
     support_shown |-> 0,
     last_challenge |-> NoText,
     streak_days |-> 0,
     last_challenge_date |-> NoDate,
     received_welcome_stamp |-> 0]

\* The dict get_user_settings builds from an existing row.
SettingsOf(row) ==
    [level |-> row.level,
     nickname |-> row.nickname,
     coach_personality |-> row.coach_personality,
     delivery_count |-> row.delivery_count,
     success_count |-> row.success_count,
     difficulty_count |-> row.difficulty_count,
     support_shown |-> row.support_shown,
     last_challenge |-> row.last_challenge,
     streak_days |-> row.streak_days,
     last_challenge_date |-> row.last_challenge_date,
     received_welcome_stamp |-> row.received_welcome_stamp]

\* ---------------------------------------------------------- pure helpers
\* computeStreak with a fault: the same-day branch counts the day again.
computeStreakSameDayBump(today_, last_date, current_streak) ==
    IF last_date = today_ THEN current_streak + 1
    ELSE IF last_date # NoDate
         THEN IF today_ - last_date = 1 THEN current_streak + 1 ELSE 1
         ELSE 1

\* computeStreak with a fault: a gap other than one day keeps the streak
\* instead of resetting it.
computeStreakKeep(today_, last_date, current_streak) ==
    IF last_date = today_ THEN current_streak
    ELSE IF last_date # NoDate
         THEN IF today_ - last_date = 1 THEN current_streak + 1
              ELSE current_streak
         ELSE 1

\* computeStreak with a fault: the first assignment starts the streak at 0.
computeStreakFromZero(today_, last_date, current_streak) ==
    IF last_date = today_ THEN current_streak
    ELSE IF last_date # NoDate
         THEN IF today_ - last_date = 1 THEN current_streak + 1 ELSE 1
         ELSE 0

\* update_streak, lines 241-254: the streak for an assignment on `today`
\* given the stored date and streak (the same-day branch returns before any
\* write; StreakRead tells the two apart).
computeStreak(today_, last_date, current_streak) ==
    IF last_date = today_ THEN current_streak
    ELSE IF last_date # NoDate
         THEN IF today_ - last_date = 1 THEN current_streak + 1 ELSE 1
         ELSE 1

\* is_special_day with a fault: no upper limit.
is_special_day_uncapped(streak_days) ==
    streak_days > 0 /\ streak_days % MilestoneInterval = 0

\* generate_challenge_with_ai, line 670.
is_special_day(streak_days) ==
    streak_days > 0 /\ streak_days % MilestoneInterval = 0
                    /\ streak_days <= MilestoneCap

\* generate_challenge_with_ai, lines 727-792: the keys of special_challenges.
special_challenges == {10, 20, 30, 40, 50, 60, 70, 80, 90, 100}

\* challenge_info with a fault: the target of 70 is below that of 60.
challenge_info_dip ==
    [k \in special_challenges |->
        CASE k = 10 -> [duration |-> 15, target |-> 30]
          [] k = 20 -> [duration |-> 30, target |-> 50]
          [] k = 30 -> [duration |-> 30, target |-> 60]
          [] k = 40 -> [duration |-> 45, target |-> 70]
          [] k = 50 -> [duration |-> 60, target |-> 80]
          [] k = 60 -> [duration |-> 60, target |-> 90]
          [] k = 70 -> [duration |-> 75, target |-> 85]
          [] k = 80 -> [duration |-> 75, target |-> 95]
          [] k = 90 -> [duration |-> 75, target |-> 100]
          [] k = 100 -> [duration |-> 75, target |-> 100]]

\* generate_challenge_with_ai, lines 728-779: duration (seconds) and target
\* (tenths of a point) of the special challenge of each key.
challenge_info ==
    [k \in special_challenges |->
        CASE k = 10 -> [duration |-> 15, target |-> 30]
          [] k = 20 -> [duration |-> 30, target |-> 50]
          [] k = 30 -> [duration |-> 30, target |-> 60]
          [] k = 40 -> [duration |-> 45, target |-> 70]
          [] k = 50 -> [duration |-> 60, target |-> 80]
          [] k = 60 -> [duration |-> 60, target |-> 90]
          [] k = 70 -> [duration |-> 75, target |-> 90]
          [] k = 80 -> [duration |-> 75, target |-> 95]
          [] k = 90 -> [duration |-> 75, target |-> 100]
          [] k = 100 -> [duration |-> 75, target |-> 100]]

\* generate_challenge_with_ai, lines 728-779: the message of each key: a
\* piece of advice for the challenge, or the congratulation on 100 days
\* that closes the series.
challenge_message ==
    [k \in special_challenges |-> IF k = 100 THEN "finale" ELSE "advice"]

\* success_rate with a fault: the division is not guarded.
success_rate_unguarded(user_history) ==
    <<user_history.success_count, user_history.delivery_count>>

\* generate_challenge_with_ai, lines 651-656: the rates, each as the pair
\* <<numerator, denominator>> of the division the code performs (the
\* initial 0 is <<0, 1>>).
success_rate(user_history) ==
    IF user_history.delivery_count > 0
    THEN <<user_history.success_count, user_history.delivery_count>>
    ELSE <<0, 1>>

difficulty_rate(user_history) ==
    IF user_history.delivery_count > 0
    THEN <<user_history.difficulty_count, user_history.delivery_count>>
    ELSE <<0, 1>>

\* rate > tenths / 10, as lines 660-664 compare a rate with 0.7, 0.6, 0.4
\* (the float quotient of two counts compares with these literals as the
\* exact fraction does).
Exceeds(rate, tenths) == 10 * rate[1] > tenths * rate[2]

\* adjustment with a fault: "70% or more", as the wording of the directive
\* has it, for "more than 70%".
adjustmentAtLeast(user_history) ==
    IF user_history.delivery_count >= 2
    THEN IF 10 * success_rate(user_history)[1]
                >= 7 * success_rate(user_history)[2] THEN "escalate"
         ELSE IF Exceeds(difficulty_rate(user_history), 6) THEN "deescalate"
         ELSE IF Exceeds(success_rate(user_history), 4)
                 /\ ~Exceeds(difficulty_rate(user_history), 4) THEN "hold"
         ELSE "holdvary"
    ELSE ""

\* adjustment with a fault: the difficulty rate is tested before the
\* success rate.
adjustmentDifficultyFirst(user_history) ==
    IF user_history.delivery_count >= 2
    THEN IF Exceeds(difficulty_rate(user_history), 6) THEN "deescalate"
         ELSE IF Exceeds(success_rate(user_history), 7) THEN "escalate"
         ELSE IF Exceeds(success_rate(user_history), 4)
                 /\ ~Exceeds(difficulty_rate(user_history), 4) THEN "hold"
         ELSE "holdvary"
    ELSE ""

\* generate_challenge_with_ai, lines 658-667: the adjustment directive put
\* into the prompt ("": none).
adjustment(user_history) ==
    IF user_history.delivery_count >= 2
    THEN IF Exceeds(success_rate(user_history), 7) THEN "escalate"
         ELSE IF Exceeds(difficulty_rate(user_history), 6) THEN "deescalate"
         ELSE IF Exceeds(success_rate(user_history), 4)
                 /\ ~Exceeds(difficulty_rate(user_history), 4) THEN "hold"
         ELSE "holdvary"
    ELSE ""

\* generate_challenge_with_ai, lines 672-674: the reminder of the special
\* challenge is put into the prompt.
special_challenge_reminder(streak_days) == is_special_day(streak_days)

\* The milestone block appended to a generated text (0: none).
MilestoneOf(streak_days) ==
    IF is_special_day(streak_days) /\ streak_days <= MilestoneCap
       /\ streak_days \in special_challenges
    THEN streak_days ELSE 0

\* The variants the external text generator may answer with.
GenVariants == {"g1"}

\* generate_challenge_with_ai, lines 714-794: generation succeeded.
GeneratedText(v, streak_days) ==
    [kind |-> "generated", a |-> v, b |-> "", ms |-> MilestoneOf(streak_days)]

\* FallbackText with a fault: the tables are indexed without defaults.
FallbackTextNoDefault(level, coach_personality) ==
    [kind |-> "fallback", a |-> coach_personality, b |-> level, ms |-> 0]

\* generate_challenge_with_ai, lines 796-831: the static fallback keyed by
\* (tone, level), an unknown tone falling back to gentle and an unknown
\* level to beginner.
FallbackText(level, coach_personality) ==
    [kind |-> "fallback",
     a |-> IF coach_personality \in KnownTones THEN coach_personality ELSE "gentle",
     b |-> IF level \in KnownLevels THEN level ELSE "beginner",
     ms |-> 0]

\* create_challenge_message, line 850: the composer's exception default.
DefaultChallenge == [kind |-> "default", a |-> "", b |-> "", ms |-> 0]

\* --------------------------------------------------------- command texts
\* handle_message, lines 2274, 2394, 2412, 2430.  seikou stands for the
\* success texts that are not in the list of line 2274, muri for such
\* difficulty texts, shoukai for such referral texts.
WelcomeBypass == {"settei", "imasugu", "dekita", "muzukashikatta",
                  "tomodachi_ni_shoukai", "ranking"}
SuccessTexts == {"dekita", "seikou"}
DifficultyTexts == {"muzukashikatta", "muri"}
ReferralTexts == {"tomodachi_ni_shoukai", "shoukai"}
Texts == {"settei", "ranking", "imasugu", "other"}
             \cup SuccessTexts \cup DifficultyTexts \cup ReferralTexts

\* The texts sent while handlers race: one per command that touches the
\* store, and an unrecognised one.
RaceTexts == {"imasugu", "dekita", "muzukashikatta", "other"}

\* The forms the /settings POST is given in the main specifications: the
\* level field absent, a known level, a value outside the four levels.
Forms == {[level |-> lv, coach_personality |-> None, nickname |-> NoName] :
              lv \in {None, "elite", "mystery"}}
RaceForms == {[level |-> "mystery", coach_personality |-> None,
               nickname |-> NoName]}

\* ------------------------------------------------------------------ state
VARIABLES
    db,      \* the users table: user -> row or NoRow
    clock,   \* the current calendar day (JST)
    h,       \* per request slot: position and locals of the handler
    events,  \* events counted so far
    chal,    \* history: challenges sent to u in reply to an on-demand
             \* request whose `today` was d
    denied,  \* history: denial replies, likewise
    fbacks,  \* history: feedback messages of u acknowledged, per kind
    asked,   \* the request last sent to the text generator, and whether
             \* it was answered
    reply    \* per request slot: the reply handed to the messaging API by
             \* the handler of the request last received there

vars == <<db, clock, h, events, chal, denied, fbacks, asked, reply>>

\* No request has been sent to the generator yet; no reply yet.
NotAsked == [adjustment |-> "", reminder |-> FALSE, ok |-> TRUE, sent |-> FALSE]
NoReply == [kind |-> "none", text |-> NoText, support |-> FALSE]

\* A reply of one text message that is no challenge.
Plain(kind) == [kind |-> kind, text |-> NoText, support |-> FALSE]

\* line_bot_api.reply_message(event.reply_token, ...) in the handler of
\* slot p.
Say(p, r) == [reply EXCEPT ![p] = r]

\* The entries of the dict of line 2273 that handle_message reads later
\* (lines 2370, 2377, 2397, 2415).
Kept(st) ==
    [level |-> st.level, coach_personality |-> st.coach_personality,
     delivery_count |-> st.delivery_count, support_shown |-> st.support_shown]

NoForm == [level |-> None, coach_personality |-> None, nickname |-> NoName]

Idle ==
    [pc |-> "idle", user |-> "-", text |-> "", where |-> "",
     settings |-> Kept(DefaultSettings), today |-> NoDate,
     immediate_count |-> 0, csettings |-> DefaultSettings,
     s_today |-> NoDate, current_streak |-> 0,
     challenge |-> NoText, current_count |-> 0,
     form |-> NoForm, has_row |-> FALSE, srow |-> NoForm]

Init ==
    /\ db = [u \in Users |-> NoRow]
    /\ clock = 1
    /\ h = [p \in Procs |-> Idle]
    /\ events = 0
    /\ chal = [u \in Users |-> [d \in 1..MaxDay |-> 0]]
    /\ denied = [u \in Users |-> [d \in 1..MaxDay |-> 0]]
    /\ fbacks = [u \in Users |-> [success |-> 0, difficulty |-> 0]]
    /\ asked = NotAsked
    /\ reply = [p \in Procs |-> NoReply]

\* Update with a fault: the update is not restricted to the user's row.
UpdateAll(u, fields) ==
    [v \in Users |->
        IF db[v].exists
        THEN [f \in DOMAIN db[v] |->
                 IF f \in DOMAIN fields THEN fields[f] ELSE db[v][f]]
        ELSE db[v]]

\* supabase ....update(fields).eq("user_id", u): no row, no effect.
Update(u, fields) ==
    IF db[u].exists
    THEN [db EXCEPT ![u] = [f \in DOMAIN db[u] |->
                              IF f \in DOMAIN fields THEN fields[f] ELSE db[u][f]]]
    ELSE db

Reset(p) == [h EXCEPT ![p] = Idle]

AllIdle == \A p \in Procs : h[p].pc = "idle"

\* ------------------------------------------------------- handle_message
\* A text message of user u arrives at request slot p (lines 2263-2270).
Receive(p, u, t) ==
    /\ h[p].pc = "idle"
    /\ events' = events + 1
    /\ h' = [h EXCEPT ![p] = [Idle EXCEPT !.pc = "gus_select", !.user = u,
                                          !.text = t, !.where = "handler"]]
    /\ reply' = Say(p, NoReply)
    /\ UNCHANGED <<db, clock, chal, denied, fbacks, asked>>

\* Dispatch with a fault: a user without assignments is sent the
\* onboarding message whatever the text.
DispatchNoBypass(p, st) ==
    LET t == h[p].text IN
    IF st.delivery_count = 0 THEN Reset(p)
    ELSE IF t = "settei" THEN Reset(p)
    ELSE IF t = "ranking" THEN Reset(p)
    ELSE IF t = "imasugu"
        THEN [h EXCEPT ![p].pc = "imm_clock", ![p].settings = Kept(st)]
    ELSE IF t \in SuccessTexts \cup DifficultyTexts
        THEN [h EXCEPT ![p].pc = "fb_read", ![p].settings = Kept(st)]
    ELSE Reset(p)

\* handle_message after get_user_settings returned `st` (lines 2274-2456):
\* the command the text is dispatched to.  Replies that need no further
\* storage access are sent here and the handler ends.
Dispatch(p, st) ==
    LET t == h[p].text IN
    IF st.delivery_count = 0 /\ t \notin WelcomeBypass
        THEN Reset(p)                                       \* onboarding
    ELSE IF t = "settei" THEN Reset(p)                      \* settings link
    ELSE IF t = "ranking" THEN Reset(p)                     \* ranking link
    ELSE IF t = "imasugu"
        THEN [h EXCEPT ![p].pc = "imm_clock", ![p].settings = Kept(st)]
    ELSE IF t \in SuccessTexts \cup DifficultyTexts
        THEN [h EXCEPT ![p].pc = "fb_read", ![p].settings = Kept(st)]
    ELSE Reset(p)                                           \* referral, help

\* The reply sent on the branches of lines 2274-2456 that end at once.
DispatchReply(p, st) ==
    LET t == h[p].text IN
    IF st.delivery_count = 0 /\ t \notin WelcomeBypass
        THEN Say(p, Plain("onboarding"))
    ELSE IF t = "settei" THEN Say(p, Plain("settings_link"))
    ELSE IF t = "ranking" THEN Say(p, Plain("ranking_link"))
    ELSE IF t = "imasugu" THEN reply
    ELSE IF t \in SuccessTexts \cup DifficultyTexts THEN reply
    ELSE IF t \in ReferralTexts THEN Say(p, Plain("referral"))
    ELSE Say(p, Plain("help"))

\* ComposerEnter with a fault: the assignment is counted first.
ComposerEnterCountFirst(p, st) ==
    [h EXCEPT ![p].pc = "inc_read", ![p].csettings = st]

\* create_challenge_message after get_user_settings returned (line 838).
ComposerEnter(p, st) ==
    [h EXCEPT ![p].pc = "streak_clock", ![p].csettings = st]

AfterSettings(p, st) ==
    IF h[p].where = "handler" THEN Dispatch(p, st) ELSE ComposerEnter(p, st)

AfterSettingsReply(p, st) ==
    IF h[p].where = "handler" THEN DispatchReply(p, st) ELSE reply

\* get_user_settings, lines 111-158: the select; an existing row is
\* returned, a missing one leads to the insert.
GusSelect(p) ==
    /\ h[p].pc = "gus_select"
    /\ LET u == h[p].user IN
       h' = IF db[u].exists
            THEN AfterSettings(p, SettingsOf(db[u]))
            ELSE [h EXCEPT ![p].pc = "gus_insert"]
    /\ reply' = IF db[h[p].user].exists
                THEN AfterSettingsReply(p, SettingsOf(db[h[p].user]))
                ELSE reply
    /\ UNCHANGED <<db, clock, events, chal, denied, fbacks, asked>>

\* get_user_settings, lines 119-143 and 160-174: the insert of the new
\* user; if the row has appeared meanwhile the insert raises (primary key)
\* and the except branch returns the same defaults.
GusInsert(p) ==
    /\ h[p].pc = "gus_insert"
    /\ LET u == h[p].user IN
       db' = IF db[u].exists THEN db
             ELSE [db EXCEPT ![u] = NewRow("beginner", "gentle", NoName)]
    /\ h' = AfterSettings(p, DefaultSettings)
    /\ reply' = AfterSettingsReply(p, DefaultSettings)
    /\ UNCHANGED <<clock, events, chal, denied, fbacks, asked>>

\* handle_message, line 2327: today.
ImmClock(p) ==
    /\ h[p].pc = "imm_clock"
    /\ h' = [h EXCEPT ![p].pc = "imm_read", ![p].today = clock]
    /\ UNCHANGED <<db, clock, events, chal, denied, fbacks, asked, reply>>

\* LimitReached with a fault: the test off by one (> for >=).
LimitReachedLate(immediate_count) == immediate_count > DailyLimit

\* handle_message, line 2350: the daily limit is reached.
LimitReached(immediate_count) == immediate_count >= DailyLimit

\* handle_message, lines 2350-2359 after the count is known: the denial
\* reply, or on to the increment.
ImmCheck(p, immediate_count) ==
    IF LimitReached(immediate_count)
    THEN Reset(p)
    ELSE [h EXCEPT ![p].pc = "imm_incr", ![p].immediate_count = immediate_count]

ImmDenied(p, immediate_count) ==
    IF LimitReached(immediate_count)
    THEN [denied EXCEPT ![h[p].user][h[p].today] = @ + 1]
    ELSE denied

ImmReply(p, immediate_count) ==
    IF LimitReached(immediate_count) THEN Say(p, Plain("denial")) ELSE reply

\* ImmRead with a fault: the denied request is counted too.
ImmReadCountsDenied(p) ==
    /\ h[p].pc = "imm_read"
    /\ LET u == h[p].user
           immediate_count == IF db[u].exists
                              THEN db[u].immediate_request_count ELSE 0
           last_request_date == IF db[u].exists
                                THEN db[u].last_immediate_request_date ELSE NoDate
       IN IF last_request_date # h[p].today
          THEN /\ h' = [h EXCEPT ![p].pc = "imm_reset", ![p].immediate_count = 0]
               /\ denied' = denied
               /\ reply' = reply
               /\ db' = db
          ELSE /\ h' = ImmCheck(p, immediate_count)
               /\ denied' = ImmDenied(p, immediate_count)
               /\ reply' = ImmReply(p, immediate_count)
               /\ db' = IF LimitReached(immediate_count)
                        THEN Update(u, [immediate_request_count |->
                                            immediate_count + 1])
                        ELSE db
    /\ UNCHANGED <<clock, events, chal, fbacks, asked>>

\* ImmRead with a fault: the count of an earlier day is kept.
ImmReadKeepsCount(p) ==
    /\ h[p].pc = "imm_read"
    /\ LET u == h[p].user
           immediate_count == IF db[u].exists
                              THEN db[u].immediate_request_count ELSE 0
           last_request_date == IF db[u].exists
                                THEN db[u].last_immediate_request_date ELSE NoDate
       IN IF last_request_date # h[p].today
          THEN /\ h' = [h EXCEPT ![p].pc = "imm_reset",
                                 ![p].immediate_count = immediate_count]
               /\ denied' = denied
               /\ reply' = reply
          ELSE /\ h' = ImmCheck(p, immediate_count)
               /\ denied' = ImmDenied(p, immediate_count)
               /\ reply' = ImmReply(p, immediate_count)
    /\ UNCHANGED <<db, clock, events, chal, fbacks, asked>>

\* handle_message, lines 2330-2343 (and 2350-2359 when the date is today's):
\* the select of the daily count and its date.
ImmRead(p) ==
    /\ h[p].pc = "imm_read"
    /\ LET u == h[p].user
           immediate_count == IF db[u].exists
                              THEN db[u].immediate_request_count ELSE 0
           last_request_date == IF db[u].exists
                                THEN db[u].last_immediate_request_date ELSE NoDate
       IN IF last_request_date # h[p].today
          THEN /\ h' = [h EXCEPT ![p].pc = "imm_reset", ![p].immediate_count = 0]
               /\ denied' = denied
               /\ reply' = reply
          ELSE /\ h' = ImmCheck(p, immediate_count)
               /\ denied' = ImmDenied(p, immediate_count)
               /\ reply' = ImmReply(p, immediate_count)
    /\ UNCHANGED <<db, clock, events, chal, fbacks, asked>>

\* handle_message, lines 2344-2359: the reset write of a new day.
ImmReset(p) ==
    /\ h[p].pc = "imm_reset"
    /\ db' = Update(h[p].user, [immediate_request_count |-> 0,
                                last_immediate_request_date |-> h[p].today])
    /\ h' = ImmCheck(p, h[p].immediate_count)
    /\ denied' = ImmDenied(p, h[p].immediate_count)
    /\ reply' = ImmReply(p, h[p].immediate_count)
    /\ UNCHANGED <<clock, events, chal, fbacks, asked>>

\* ImmIncr with a fault: the increment adds 1 to the stored count.
ImmIncrStored(p) ==
    /\ h[p].pc = "imm_incr"
    /\ db' = Update(h[p].user,
                    [immediate_request_count
                         |-> db[h[p].user].immediate_request_count + 1,
                     last_immediate_request_date |-> h[p].today])
    /\ h' = [h EXCEPT ![p].pc = "gus_select", ![p].where = "composer",
                      ![p].immediate_count = 0]
    /\ UNCHANGED <<clock, events, chal, denied, fbacks, asked, reply>>

\* handle_message, lines 2362-2370: the increment write, then the composer
\* is entered.
ImmIncr(p) ==
    /\ h[p].pc = "imm_incr"
    /\ db' = Update(h[p].user,
                    [immediate_request_count |-> h[p].immediate_count + 1,
                     last_immediate_request_date |-> h[p].today])
    /\ h' = [h EXCEPT ![p].pc = "gus_select", ![p].where = "composer",
                      ![p].immediate_count = 0]
    /\ UNCHANGED <<clock, events, chal, denied, fbacks, asked, reply>>

\* ------------------------------------------- create_challenge_message
\* update_streak, line 226: today.
StreakClock(p) ==
    /\ h[p].pc = "streak_clock"
    /\ h' = [h EXCEPT ![p].pc = "streak_read", ![p].s_today = clock]
    /\ UNCHANGED <<db, clock, events, chal, denied, fbacks, asked, reply>>

\* update_streak, lines 228-254: the select and the decision.  On the same
\* day the stored streak is returned and nothing is written.
StreakRead(p) ==
    /\ h[p].pc = "streak_read"
    /\ LET u == h[p].user
           current_streak == IF db[u].exists THEN db[u].streak_days ELSE 0
           last_date == IF db[u].exists THEN db[u].last_challenge_date ELSE NoDate
           new_streak == computeStreak(h[p].s_today, last_date, current_streak)
       IN h' = IF last_date = h[p].s_today
               THEN [h EXCEPT ![p].pc = "generate", ![p].s_today = NoDate,
                              ![p].current_streak = new_streak]
               ELSE [h EXCEPT ![p].pc = "streak_write",
                              ![p].current_streak = new_streak]
    /\ UNCHANGED <<db, clock, events, chal, denied, fbacks, asked, reply>>

\* StreakWrite with a fault: the date is left as it was.
StreakWriteNoDate(p) ==
    /\ h[p].pc = "streak_write"
    /\ db' = Update(h[p].user, [streak_days |-> h[p].current_streak])
    /\ h' = [h EXCEPT ![p].pc = "generate", ![p].s_today = NoDate]
    /\ UNCHANGED <<clock, events, chal, denied, fbacks, asked, reply>>

\* StreakWrite with a fault: an advance adds 1 to the stored streak.
StreakWriteRelative(p) ==
    /\ h[p].pc = "streak_write"
    /\ db' = Update(h[p].user,
                    [streak_days |-> IF h[p].current_streak = 1 THEN 1
                                     ELSE db[h[p].user].streak_days + 1,
                     last_challenge_date |-> h[p].s_today])
    /\ h' = [h EXCEPT ![p].pc = "generate", ![p].s_today = NoDate]
    /\ UNCHANGED <<clock, events, chal, denied, fbacks, asked, reply>>

\* update_streak, lines 256-262: the write of the streak and its date.
StreakWrite(p) ==
    /\ h[p].pc = "streak_write"
    /\ db' = Update(h[p].user, [streak_days |-> h[p].current_streak,
                                last_challenge_date |-> h[p].s_today])
    /\ h' = [h EXCEPT ![p].pc = "generate", ![p].s_today = NoDate]
    /\ UNCHANGED <<clock, events, chal, denied, fbacks, asked, reply>>

\* handle_message, line 2377, on the snapshot of line 2273.
NeedsSupport(p) ==
    /\ h[p].settings.delivery_count >= SupportThreshold
    /\ h[p].settings.support_shown = 0

\* handle_message, lines 2372-2391: the composer has returned; the reply
\* is sent at once, or after mark_support_shown when the support message
\* is added.
ReplyChallenge(p, text) ==
    IF NeedsSupport(p)
    THEN [h EXCEPT ![p].pc = "mark_support", ![p].challenge = text]
    ELSE Reset(p)

\* The reply of lines 2372-2391: the challenge, and the support message.
Challenge(text, support) ==
    [kind |-> "challenge", text |-> text, support |-> support]

ChallengeReply(p, text) ==
    IF NeedsSupport(p) THEN reply ELSE Say(p, Challenge(text, FALSE))

Sent(p) == [chal EXCEPT ![h[p].user][h[p].today] = @ + 1]

SentUnlessSupport(p) == IF NeedsSupport(p) THEN chal ELSE Sent(p)

\* generate_challenge_with_ai, lines 330-831, as called at line 843 with the
\* handler's level: a level outside level_guidelines raises at line 693,
\* before the try, and the composer returns its default (lines 848-850)
\* without reaching increment_delivery_count; otherwise the generator
\* answers (variant v) or fails (static fallback).
Generate(p, v, ok) ==
    /\ h[p].pc = "generate"
    /\ LET level == h[p].settings.level
           tone == h[p].csettings.coach_personality
       IN IF level \notin KnownLevels
          THEN /\ h' = ReplyChallenge(p, DefaultChallenge)
               /\ chal' = SentUnlessSupport(p)
               /\ reply' = ChallengeReply(p, DefaultChallenge)
               /\ asked' = asked
          ELSE /\ h' = [h EXCEPT ![p].pc = "inc_read",
                                 ![p].csettings = DefaultSettings,
                                 ![p].current_streak = 0,
                                 ![p].challenge =
                                     IF ok THEN GeneratedText(v, h[p].current_streak)
                                     ELSE FallbackText(level, tone)]
               /\ chal' = chal
               /\ reply' = reply
               /\ asked' = [adjustment |-> adjustment(h[p].csettings),
                            reminder |->
                                special_challenge_reminder(h[p].current_streak),
                            ok |-> ok, sent |-> TRUE]
    /\ UNCHANGED <<db, clock, events, denied, fbacks>>

\* increment_delivery_count, line 275: the select of delivery_count.
IncRead(p) ==
    /\ h[p].pc = "inc_read"
    /\ LET u == h[p].user IN
       IF db[u].exists
       THEN /\ h' = [h EXCEPT ![p].pc = "inc_write",
                              ![p].current_count = db[u].delivery_count]
            /\ chal' = chal
            /\ reply' = reply
       ELSE /\ h' = ReplyChallenge(p, h[p].challenge)
            /\ chal' = SentUnlessSupport(p)
            /\ reply' = ChallengeReply(p, h[p].challenge)
    /\ UNCHANGED <<db, clock, events, denied, fbacks, asked>>

\* IncWrite with a fault: the update writes the count alone.
IncWriteCountOnly(p) ==
    /\ h[p].pc = "inc_write"
    /\ db' = Update(h[p].user, [delivery_count |-> h[p].current_count + 1])
    /\ h' = ReplyChallenge(p, h[p].challenge)
    /\ chal' = SentUnlessSupport(p)
    /\ reply' = ChallengeReply(p, h[p].challenge)
    /\ UNCHANGED <<clock, events, denied, fbacks, asked>>

\* increment_delivery_count, lines 278-281: the write of the count and of
\* the text; then the reply of handle_message (lines 2372-2391).
IncWrite(p) ==
    /\ h[p].pc = "inc_write"
    /\ db' = Update(h[p].user, [delivery_count |-> h[p].current_count + 1,
                                last_challenge |-> h[p].challenge])
    /\ h' = ReplyChallenge(p, h[p].challenge)
    /\ chal' = SentUnlessSupport(p)
    /\ reply' = ChallengeReply(p, h[p].challenge)
    /\ UNCHANGED <<clock, events, denied, fbacks, asked>>

\* mark_support_shown, line 313, then the reply (line 2389).
MarkSupport(p) ==
    /\ h[p].pc = "mark_support"
    /\ db' = Update(h[p].user, [support_shown |-> 1])
    /\ h' = Reset(p)
    /\ chal' = Sent(p)
    /\ reply' = Say(p, Challenge(h[p].challenge, TRUE))
    /\ UNCHANGED <<clock, events, denied, fbacks, asked>>

\* ------------------------------------------------------ record_feedback
\* handle_message, lines 2397-2409 and 2415-2427: the reply to a report.
FeedbackReply(kind) ==
    Plain(IF kind = "success" THEN "praise" ELSE "encouragement")

\* record_feedback, lines 293 / 298: the select of the count of the kind.
FbRead(p) ==
    /\ h[p].pc = "fb_read"
    /\ LET u == h[p].user
           kind == IF h[p].text \in SuccessTexts THEN "success" ELSE "difficulty"
       IN IF db[u].exists
          THEN /\ h' = [h EXCEPT ![p].pc = "fb_write",
                                 ![p].current_count =
                                     IF kind = "success" THEN db[u].success_count
                                     ELSE db[u].difficulty_count]
               /\ fbacks' = fbacks
               /\ reply' = reply
          ELSE /\ h' = Reset(p)
               /\ fbacks' = [fbacks EXCEPT ![u][kind] = @ + 1]
               /\ reply' = Say(p, FeedbackReply(kind))
    /\ UNCHANGED <<db, clock, events, chal, denied, asked>>

\* record_feedback, lines 296 / 301: the write; then the reply of
\* handle_message (lines 2397-2409, 2415-2427).
FbWrite(p) ==
    /\ h[p].pc = "fb_write"
    /\ LET u == h[p].user
           kind == IF h[p].text \in SuccessTexts THEN "success" ELSE "difficulty"
       IN /\ db' = IF kind = "success"
                   THEN Update(u, [success_count |-> h[p].current_count + 1])
                   ELSE Update(u, [difficulty_count |-> h[p].current_count + 1])
          /\ fbacks' = [fbacks EXCEPT ![u][kind] = @ + 1]
          /\ reply' = Say(p, FeedbackReply(kind))
    /\ h' = Reset(p)
    /\ UNCHANGED <<clock, events, chal, denied, asked>>

\* ------------------------------------------------------ /settings POST
\* str.strip() on a sequence of code points (32: the blank).
RECURSIVE LStrip(_), RStrip(_)
LStrip(s) == IF s # <<>> /\ Head(s) = 32 THEN LStrip(Tail(s)) ELSE s
RStrip(s) == IF s # <<>> /\ s[Len(s)] = 32
             THEN RStrip(SubSeq(s, 1, Len(s) - 1)) ELSE s
Strip(s) == RStrip(LStrip(s))

\* settings, lines 1499-1509: the arguments the POST handler passes on.
new_level(form) == form.level
new_personality(form) ==
    IF form.coach_personality = None THEN "gentle" ELSE form.coach_personality
\* new_nickname with a fault: the name is not cut.
new_nickname_uncut(form) ==
    IF form.nickname = NoName THEN <<>> ELSE Strip(form.nickname)

new_nickname(form) ==
    LET n == IF form.nickname = NoName THEN <<>> ELSE Strip(form.nickname)
    IN IF n # <<>> /\ Len(n) > NicknameMax THEN SubSeq(n, 1, NicknameMax) ELSE n

\* A settings form of user u is posted to request slot p (lines 1498-1511).
Post(p, u, form) ==
    /\ h[p].pc = "idle"
    /\ events' = events + 1
    /\ h' = [h EXCEPT ![p] = [Idle EXCEPT !.pc = "set_read", !.user = u,
                                          !.form = form]]
    /\ reply' = Say(p, NoReply)
    /\ UNCHANGED <<db, clock, chal, denied, fbacks, asked>>

\* update_user_settings, lines 185-187: the select of the three fields.
SetRead(p) ==
    /\ h[p].pc = "set_read"
    /\ LET u == h[p].user IN
       h' = [h EXCEPT ![p].pc = "set_write",
                      ![p].has_row = db[u].exists,
                      ![p].srow = IF db[u].exists
                                  THEN [level |-> db[u].level,
                                        coach_personality |-> db[u].coach_personality,
                                        nickname |-> db[u].nickname]
                                  ELSE NoForm]
    /\ UNCHANGED <<db, clock, events, chal, denied, fbacks, asked, reply>>

\* SetWrite with a fault: the update writes the flags of a new user too.
SetWriteFlags(p) ==
    /\ h[p].pc = "set_write"
    /\ LET u == h[p].user
           level == new_level(h[p].form)
           coach_personality == new_personality(h[p].form)
           nickname == new_nickname(h[p].form)
       IN db' = IF h[p].has_row
                THEN Update(u, [level |-> IF level # None THEN level
                                          ELSE h[p].srow.level,
                                coach_personality |-> coach_personality,
                                nickname |-> nickname,
                                support_shown |-> 0,
                                received_welcome_stamp |-> 0])
                ELSE IF db[u].exists THEN db
                ELSE [db EXCEPT ![u] =
                         NewRow(IF level \in {None, ""} THEN "beginner" ELSE level,
                                IF coach_personality = "" THEN "gentle"
                                ELSE coach_personality,
                                nickname)]
    /\ h' = Reset(p)
    /\ UNCHANGED <<clock, events, chal, denied, fbacks, asked, reply>>

\* update_user_settings, lines 191-211: the update with the values given
\* or read, or the insert of a new user (which raises, and is swallowed,
\* when the row has appeared meanwhile).
SetWrite(p) ==
    /\ h[p].pc = "set_write"
    /\ LET u == h[p].user
           level == new_level(h[p].form)
           coach_personality == new_personality(h[p].form)
           nickname == new_nickname(h[p].form)
       IN db' = IF h[p].has_row
                THEN Update(u, [level |-> IF level # None THEN level
                                          ELSE h[p].srow.level,
                                coach_personality |-> coach_personality,
                                nickname |-> nickname])
                ELSE IF db[u].exists THEN db
                ELSE [db EXCEPT ![u] =
                         NewRow(IF level \in {None, ""} THEN "beginner" ELSE level,
                                IF coach_personality = "" THEN "gentle"
                                ELSE coach_personality,
                                nickname)]
    /\ h' = Reset(p)
    /\ UNCHANGED <<clock, events, chal, denied, fbacks, asked, reply>>

\* ------------------------------------------------------ storage failures
\* A storage call raises (the store is unreachable, or answers with an
\* error); the call has had no effect on the table.
\*
\* GusSelectFails with a fault: the exception is not caught, and ends the
\* handler.
GusSelectRaises(p) ==
    /\ h[p].pc = "gus_select"
    /\ h' = Reset(p)
    /\ UNCHANGED <<db, clock, events, chal, denied, fbacks, asked, reply>>

\* get_user_settings, lines 160-174: the select raises; the except branch
\* returns the defaults.
GusSelectFails(p) ==
    /\ h[p].pc = "gus_select"
    /\ h' = AfterSettings(p, DefaultSettings)
    /\ reply' = AfterSettingsReply(p, DefaultSettings)
    /\ UNCHANGED <<db, clock, events, chal, denied, fbacks, asked>>

\* get_user_settings, lines 131, 160-174: the insert raises; likewise.
GusInsertFails(p) ==
    /\ h[p].pc = "gus_insert"
    /\ h' = AfterSettings(p, DefaultSettings)
    /\ reply' = AfterSettingsReply(p, DefaultSettings)
    /\ UNCHANGED <<db, clock, events, chal, denied, fbacks, asked>>

\* handle_message, lines 2330-2365: the select or an update of the daily
\* count raises; the exception reaches the except of lines 2458-2461,
\* which logs it, and the handler ends.
ImmFails(p) ==
    /\ h[p].pc \in {"imm_read", "imm_reset", "imm_incr"}
    /\ h' = Reset(p)
    /\ UNCHANGED <<db, clock, events, chal, denied, fbacks, asked, reply>>

\* StreakFails with a fault: the failed update has written the streak but
\* not its date.
StreakFailsPartial(p) ==
    /\ h[p].pc \in {"streak_read", "streak_write"}
    /\ db' = IF h[p].pc = "streak_write"
             THEN Update(h[p].user, [streak_days |-> h[p].current_streak])
             ELSE db
    /\ h' = [h EXCEPT ![p].pc = "generate", ![p].s_today = NoDate,
                      ![p].current_streak = 0]
    /\ UNCHANGED <<clock, events, chal, denied, fbacks, asked, reply>>

\* update_streak, lines 264-266: the select or the update raises; 0 is
\* returned.
StreakFails(p) ==
    /\ h[p].pc \in {"streak_read", "streak_write"}
    /\ h' = [h EXCEPT ![p].pc = "generate", ![p].s_today = NoDate,
                      ![p].current_streak = 0]
    /\ UNCHANGED <<db, clock, events, chal, denied, fbacks, asked, reply>>

\* increment_delivery_count, lines 283-284: the select or the update
\* raises; the composer returns the challenge (line 847).
IncFails(p) ==
    /\ h[p].pc \in {"inc_read", "inc_write"}
    /\ h' = ReplyChallenge(p, h[p].challenge)
    /\ chal' = SentUnlessSupport(p)
    /\ reply' = ChallengeReply(p, h[p].challenge)
    /\ UNCHANGED <<db, clock, events, denied, fbacks, asked>>

\* mark_support_shown, lines 314-315: the update raises; the reply is sent
\* (line 2389).
MarkSupportFails(p) ==
    /\ h[p].pc = "mark_support"
    /\ h' = Reset(p)
    /\ chal' = Sent(p)
    /\ reply' = Say(p, Challenge(h[p].challenge, TRUE))
    /\ UNCHANGED <<db, clock, events, denied, fbacks, asked>>

\* record_feedback, lines 304-305: the select or the update raises; the
\* reply is sent.
FbFails(p) ==
    /\ h[p].pc \in {"fb_read", "fb_write"}
    /\ LET u == h[p].user
           kind == IF h[p].text \in SuccessTexts THEN "success" ELSE "difficulty"
       IN /\ fbacks' = [fbacks EXCEPT ![u][kind] = @ + 1]
          /\ reply' = Say(p, FeedbackReply(kind))
    /\ h' = Reset(p)
    /\ UNCHANGED <<db, clock, events, chal, denied, asked>>

\* ------------------------------------------------ mark_welcome_stamp_sent
\* mark_welcome_stamp_sent(u), line 323: the update of the flag.
MarkWelcomeStampSent(u) ==
    /\ db[u].exists
    /\ db[u].received_welcome_stamp = 0
    /\ db' = Update(u, [received_welcome_stamp |-> 1])
    /\ UNCHANGED <<clock, h, events, chal, denied, fbacks, asked, reply>>

\* ----------------------------------------------------------------- time
\* Midnight (JST) passes (counted: 1 when it counts as an event).
Tick(counted) ==
    /\ clock < MaxDay
    /\ clock' = clock + 1
    /\ events' = events + counted
    /\ UNCHANGED <<db, h, chal, denied, fbacks, asked, reply>>

\* --------------------------------------------------------- specifications
\* The steps of handle_message and of what it calls.
MessageStep(p) ==
    \/ GusSelect(p) \/ GusInsert(p)
    \/ ImmClock(p) \/ ImmRead(p) \/ ImmReset(p) \/ ImmIncr(p)
    \/ StreakClock(p) \/ StreakRead(p) \/ StreakWrite(p)
    \/ \E v \in GenVariants, ok \in BOOLEAN : Generate(p, v, ok)
    \/ IncRead(p) \/ IncWrite(p) \/ MarkSupport(p)
    \/ FbRead(p) \/ FbWrite(p)

Step(p) == MessageStep(p) \/ SetRead(p) \/ SetWrite(p)

\* A request goes to the first free slot of the worker pool.
FirstFree(p) ==
    /\ h[p].pc = "idle"
    /\ \A q \in Procs : (q = "h1" /\ p = "h2") => h[q].pc # "idle"

\* Fewer than n events so far.
Budget(n) == events < n

Arrive(p, us, texts, forms) ==
    /\ FirstFree(p)
    /\ \/ \E u \in us, t \in texts : Receive(p, u, t)
       \/ \E u \in us, form \in forms : Post(p, u, form)

\* Requests of one user are handled concurrently: any slot may take its
\* next step, and midnight may pass between any two steps.
Next ==
    \/ Budget(MaxConc) /\ (\E p \in Procs : Arrive(p, {"u1"}, RaceTexts, RaceForms))
    \/ \E p \in Procs : Step(p)
    \/ Budget(MaxConc) /\ Tick(1)

Spec == Init /\ [][Next]_vars

\* Requests of one user are handled one after another, each within one
\* calendar day.
NextSeq ==
    \/ AllIdle /\ Budget(MaxSeq) /\ (\E p \in Procs : Arrive(p, {"u1"}, Texts, Forms))
    \/ \E p \in Procs : Step(p)
    \/ AllIdle /\ Tick(0)

SpecSeq == Init /\ [][NextSeq]_vars

\* ------------------------------------------------- the composer on a record
\* The levels and tones of the records the composer is called on: known
\* ones, and a value outside the known ones (which the settings form can
\* store).
GenLevels == {"beginner", "elite", "mystery"}
GenTones == {"gentle", "intense", "spooky"}

\* Records the store can hold when the composer is called: any counts with
\* no streak yet, or any streak with its date today's, yesterday's or
\* older.
GenRow(lv, tone, d, s, f, streak, date, day) ==
    [NewRow(lv, tone, NoName) EXCEPT
        !.delivery_count = d, !.success_count = s, !.difficulty_count = f,
        !.last_challenge = IF d > 0 THEN GeneratedText("g1", 0) ELSE NoText,
        !.immediate_request_count = 1, !.last_immediate_request_date = day,
        !.streak_days = streak, !.last_challenge_date = date]

GenRows(day) ==
    {GenRow(lv, tone, d, s, f, 0, NoDate, day) :
        lv \in GenLevels, tone \in GenTones,
        d \in 0..MaxCount, s \in 0..MaxCount, f \in 0..MaxCount}
    \cup
    {GenRow(lv, tone, 1, 0, 0, streak, date, day) :
        lv \in GenLevels, tone \in GenTones,
        streak \in 1..MaxStreak, date \in {day - 2, day - 1, day}}

\* handle_message has counted the on-demand request of u1 (line 2362) and
\* calls create_challenge_message with the level it read (line 2370).
InitGen ==
    /\ clock = MaxDay - 1
    /\ \E row \in GenRows(clock) :
          /\ db = [u \in Users |-> IF u = "u1" THEN row ELSE NoRow]
          /\ h = [p \in Procs |->
                    IF p = "h1"
                    THEN [Idle EXCEPT !.pc = "gus_select", !.user = "u1",
                                      !.text = "imasugu", !.where = "composer",
                                      !.settings = Kept(SettingsOf(row)),
                                      !.today = clock]
                    ELSE Idle]
    /\ events = 1
    /\ chal = [u \in Users |-> [d \in 1..MaxDay |-> 0]]
    /\ denied = [u \in Users |-> [d \in 1..MaxDay |-> 0]]
    /\ fbacks = [u \in Users |-> [success |-> 0, difficulty |-> 0]]
    /\ asked = NotAsked
    /\ reply = [p \in Procs |-> NoReply]

ComposerStep(p) ==
    \/ GusSelect(p)
    \/ StreakClock(p) \/ StreakRead(p) \/ StreakWrite(p)
    \/ \E v \in GenVariants, ok \in BOOLEAN : Generate(p, v, ok)
    \/ IncRead(p) \/ IncWrite(p) \/ MarkSupport(p)

NextGen == \E p \in Procs : ComposerStep(p)

SpecGen == InitGen /\ [][NextGen]_vars

\* The composer on a record, any storage call of it failing or not.
ComposerFails(p) ==
    \/ GusSelectFails(p) \/ StreakFails(p) \/ IncFails(p)
    \/ MarkSupportFails(p)

NextGenF == \E p \in Procs : ComposerStep(p) \/ ComposerFails(p)

SpecGenF == InitGen /\ [][NextGenF]_vars

\* ------------------------------------------- requests on a failing store
\* The texts sent while storage calls may fail: one per command.
FailTexts == {"settei", "imasugu", "dekita", "muzukashikatta", "other"}

\* The record of u1 when the first request arrives: none yet, or one with
\* three assignments, the last of them today, and n on-demand requests
\* counted today.
FailRows ==
    {[NewRow(lv, "gentle", NoName) EXCEPT
         !.delivery_count = SupportThreshold,
         !.last_challenge = GeneratedText("g1", 0),
         !.immediate_request_count = n, !.last_immediate_request_date = 1,
         !.streak_days = 1, !.last_challenge_date = 1] :
       lv \in {"beginner", "mystery"}, n \in {1, DailyLimit}}

InitFail ==
    /\ \E row \in {NoRow} \cup FailRows :
          db = [u \in Users |-> IF u = "u1" THEN row ELSE NoRow]
    /\ clock = 1
    /\ h = [p \in Procs |-> Idle]
    /\ events = 0
    /\ chal = [u \in Users |-> [d \in 1..MaxDay |-> 0]]
    /\ denied = [u \in Users |-> [d \in 1..MaxDay |-> 0]]
    /\ fbacks = [u \in Users |-> [success |-> 0, difficulty |-> 0]]
    /\ asked = NotAsked
    /\ reply = [p \in Procs |-> NoReply]

StepFails(p) ==
    \/ GusSelectFails(p) \/ GusInsertFails(p) \/ ImmFails(p)
    \/ StreakFails(p) \/ IncFails(p) \/ MarkSupportFails(p)
    \/ FbFails(p)

\* Messages of one user handled one after another, any storage call
\* failing or not.
NextFail ==
    \/ /\ AllIdle /\ Budget(MaxFail)
       /\ \E p \in Procs : FirstFree(p) /\ \E t \in FailTexts : Receive(p, "u1", t)
    \/ \E p \in Procs : MessageStep(p) \/ StepFails(p)
    \/ AllIdle /\ Tick(0)

SpecFail == InitFail /\ [][NextFail]_vars

\* ------------------------------------------------ settings forms in a row
\* A name of n code points, different for every n and every position.
Name(n) == [i \in 1..n |-> 100 * n + i]

\* The nickname fields posted: absent, names of every length up to MaxName,
\* names within blanks, blanks only, a name with a blank inside.
SetNames ==
    {NoName} \cup {Name(n) : n \in 0..MaxName}
    \cup {<<32>> \o Name(n) \o <<32, 32>> : n \in {0, NicknameMax, MaxName}}
    \cup {<<65, 32, 66>>}

\* The forms posted: each of level and tone absent or given.
SetForms ==
    {[level |-> lv, coach_personality |-> tone, nickname |-> n] :
        lv \in {None, "elite"}, tone \in {None, "strict"}, n \in SetNames}

\* Settings forms and first-contact messages of one user, handled one after
\* another.
NextSet ==
    \/ /\ AllIdle /\ Budget(MaxSet)
       /\ \E p \in Procs :
             /\ FirstFree(p)
             /\ \/ \E form \in SetForms : Post(p, "u1", form)
                \/ Receive(p, "u1", "other")
    \/ \E p \in Procs : GusSelect(p) \/ GusInsert(p) \/ SetRead(p) \/ SetWrite(p)

SpecSet == Init /\ [][NextSet]_vars

\* ------------------------------------------------------------ two users
\* The texts and the form sent while the handlers of two users race.
UsersTexts == {"imasugu", "dekita"}

\* The record of a user when the run starts: none yet, or one with three
\* assignments, the last of them today, and the support message not yet
\* sent.
UsersRow ==
    [NewRow("beginner", "gentle", NoName) EXCEPT
        !.delivery_count = SupportThreshold,
        !.last_challenge = GeneratedText("g1", 0),
        !.immediate_request_count = 1, !.last_immediate_request_date = 1,
        !.streak_days = 1, !.last_challenge_date = 1]

InitUsers ==
    /\ db \in [Users -> {NoRow, UsersRow}]
    /\ clock = 1
    /\ h = [p \in Procs |-> Idle]
    /\ events = 0
    /\ chal = [u \in Users |-> [d \in 1..MaxDay |-> 0]]
    /\ denied = [u \in Users |-> [d \in 1..MaxDay |-> 0]]
    /\ fbacks = [u \in Users |-> [success |-> 0, difficulty |-> 0]]
    /\ asked = NotAsked
    /\ reply = [p \in Procs |-> NoReply]

\* Requests of two users are handled concurrently, within one day.
NextUsers ==
    \/ Budget(MaxUsers) /\ (\E p \in Procs : Arrive(p, Users, UsersTexts, RaceForms))
    \/ \E p \in Procs : Step(p)
    \/ MarkWelcomeStampSent("u1")

SpecUsers == InitUsers /\ [][NextUsers]_vars

\* ------------------------------------------------- the generator's combos
\* The texts the generator may answer with, named by the combo of moves
\* they set (-> written >): examples of level_guidelines, marked OK or NG
\* there, and a combo of two moves of the elite list's CL and AS groups.
ComboVariants ==
    {"maetobi", "EBTJ>KNTJ>EBTJCL", "EBTJCL>KNTJCL", "EBTJ>KNTJ>SOAS>SOCL",
     "EBTJO>KNTJCL>inverseEBTJCL", "EBTJOCL>KNTJOAS"}

\* The groups of level_guidelines the moves of a text belong to: basic
\* (the basic / main lists), exclusive (the CL, AS, TS groups of the
\* advanced list and the quadruple AS, CL, TS group of the elite list),
\* peak (the CL, AS, TS groups of the elite list: EBTJOCL, KNTJOAS, ...).
combo(v) ==
    CASE v = "maetobi" -> <<"basic">>
      [] v = "EBTJ>KNTJ>EBTJCL" -> <<"basic", "basic", "exclusive">>
      [] v = "EBTJCL>KNTJCL" -> <<"exclusive", "exclusive">>
      [] v = "EBTJ>KNTJ>SOAS>SOCL" -> <<"basic", "basic", "basic", "basic">>
      [] v = "EBTJO>KNTJCL>inverseEBTJCL" -> <<"basic", "exclusive", "exclusive">>
      [] v = "EBTJOCL>KNTJOAS" -> <<"peak", "peak">>
      [] OTHER -> <<"basic">>

\* level_guidelines: the longest combo the guideline of each level allows
\* (beginner: single moves; intermediate and advanced: up to 3 in a row;
\* elite: 6 or more in a row are NG).
max_combo ==
    [lv \in KnownLevels |->
        CASE lv = "beginner" -> 1
          [] lv = "intermediate" -> 3
          [] lv = "advanced" -> 3
          [] lv = "elite" -> 5]

\* generate_challenge_with_ai, lines 714-724 and 794: the answer of the
\* generator is returned as it is; no answer is turned down.
accepted(level, v) == TRUE

\* Records the composer is called on: each known level, 12 assignments,
\* all of them reported as success, or as difficult, or none reported.
ComboRows(day) ==
    {GenRow(lv, "gentle", 12, sf[1], sf[2], 0, NoDate, day) :
        lv \in KnownLevels, sf \in {<<12, 0>>, <<0, 12>>, <<0, 0>>}}

InitCombo ==
    /\ clock = 1
    /\ \E row \in ComboRows(clock) :
          /\ db = [u \in Users |-> IF u = "u1" THEN row ELSE NoRow]
          /\ h = [p \in Procs |->
                    IF p = "h1"
                    THEN [Idle EXCEPT !.pc = "gus_select", !.user = "u1",
                                      !.text = "imasugu", !.where = "composer",
                                      !.settings = Kept(SettingsOf(row)),
                                      !.today = clock]
                    ELSE Idle]
    /\ events = 1
    /\ chal = [u \in Users |-> [d \in 1..MaxDay |-> 0]]
    /\ denied = [u \in Users |-> [d \in 1..MaxDay |-> 0]]
    /\ fbacks = [u \in Users |-> [success |-> 0, difficulty |-> 0]]
    /\ asked = NotAsked
    /\ reply = [p \in Procs |-> NoReply]

\* The composer, the generator answering with any of the combos that
\* generate_challenge_with_ai lets through.
NextCombo ==
    \E p \in Procs :
        \/ GusSelect(p)
        \/ StreakClock(p) \/ StreakRead(p) \/ StreakWrite(p)
        \/ \E v \in ComboVariants, ok \in BOOLEAN :
              accepted(h[p].settings.level, v) /\ Generate(p, v, ok)
        \/ IncRead(p) \/ IncWrite(p) \/ MarkSupport(p)

SpecCombo == InitCombo /\ [][NextCombo]_vars

\* ------------------------------------------------ one day, one user
\* The record of u1 when the day's requests arrive: three assignments, no
\* on-demand request counted yet, and no streak, or a streak of 1, 9 or 10
\* whose date is today's, yesterday's or older.
DayRows(day) ==
    {[GenRow("beginner", "gentle", SupportThreshold, 0, 0, sd[1], sd[2], day)
         EXCEPT !.immediate_request_count = 0,
                !.last_immediate_request_date = NoDate] :
       sd \in {<<0, NoDate>>}
                  \cup ({1, 9, 10} \X {day - 2, day - 1, day})}

InitDay ==
    /\ clock = MaxDay - 1
    /\ \E row \in DayRows(clock) :
          db = [u \in Users |-> IF u = "u1" THEN row ELSE NoRow]
    /\ h = [p \in Procs |-> Idle]
    /\ events = 0
    /\ chal = [u \in Users |-> [d \in 1..MaxDay |-> 0]]
    /\ denied = [u \in Users |-> [d \in 1..MaxDay |-> 0]]
    /\ fbacks = [u \in Users |-> [success |-> 0, difficulty |-> 0]]
    /\ asked = NotAsked
    /\ reply = [p \in Procs |-> NoReply]

\* On-demand requests of one user handled concurrently within one day.
NextDay ==
    \/ /\ Budget(MaxDayReq)
       /\ \E p \in Procs : FirstFree(p) /\ Receive(p, "u1", "imasugu")
    \/ \E p \in Procs :
          \/ GusSelect(p)
          \/ ImmClock(p) \/ ImmRead(p) \/ ImmReset(p) \/ ImmIncr(p)
          \/ StreakClock(p) \/ StreakRead(p) \/ StreakWrite(p)
          \/ \E v \in GenVariants, ok \in BOOLEAN : Generate(p, v, ok)
          \/ IncRead(p) \/ IncWrite(p) \/ MarkSupport(p)

SpecDay == InitDay /\ [][NextDay]_vars

\* ================================================================ claims
RECURSIVE SumDays(_, _)
SumDays(f, n) == IF n = 0 THEN 0 ELSE f[n] + SumDays(f, n - 1)

\* The challenges sent to u so far.
Issued(u) == SumDays(chal[u], MaxDay)

\* C1: requests of one user handled one after another within a day: never
\* more than 3 on-demand challenges a day, and a denial is only ever sent
\* once 3 challenges have been sent that day (the first 3 requests of the
\* day get a challenge, every later one the denial).
C1_SequentialDailyCap ==
    \A u \in Users, d \in 1..MaxDay :
        /\ chal[u][d] <= DailyLimit
        /\ denied[u][d] > 0 => chal[u][d] = DailyLimit

C1_Witness == chal["u1"][1] = DailyLimit /\ denied["u1"][1] >= 2

\* C2: with requests handled concurrently, no more than 3 on-demand
\* challenges are sent to a user for one calendar day.
C2_ConcurrentDailyCap ==
    \A u \in Users, d \in 1..MaxDay : chal[u][d] <= DailyLimit

\* C3: no lost update: once all handlers of a user have finished (every
\* challenge having gone through increment_delivery_count), the stored
\* counters equal the challenges sent and the feedback acknowledged.
C3_NoLostUpdate ==
    \A u \in Users :
        (AllIdle /\ db[u].exists /\ db[u].level \in KnownLevels) =>
            /\ db[u].delivery_count = Issued(u)
            /\ db[u].success_count = fbacks[u].success
            /\ db[u].difficulty_count = fbacks[u].difficulty

\* C4: in every state of a user's record,
\* success_count + difficulty_count <= delivery_count.
C4_FeedbackWithinAssignments ==
    \A u \in Users :
        db[u].exists =>
            db[u].success_count + db[u].difficulty_count <= db[u].delivery_count

\* C5: the stored delivery_count, success_count and difficulty_count of a
\* user never decrease, whatever the interleaving of the handlers.
C5_CountersMonotonic ==
    [][\A u \in Users :
          db[u].exists =>
              /\ db'[u].exists
              /\ db'[u].delivery_count >= db[u].delivery_count
              /\ db'[u].success_count >= db[u].success_count
              /\ db'[u].difficulty_count >= db[u].difficulty_count]_vars

\* The step on which create_challenge_message returns to handle_message,
\* and the text it returns.
ComposerReturns(p) ==
    /\ h[p].pc \in {"generate", "inc_read", "inc_write"}
    /\ h'[p].pc \in {"idle", "mark_support"}

Returned(p) == IF h[p].pc = "generate" THEN DefaultChallenge ELSE h[p].challenge

\* C6: in sequential execution every call of create_challenge_message that
\* returns a challenge leaves delivery_count one higher than before and
\* last_challenge equal to the returned text, on every return path.
C6_ComposerCountsAndStores ==
    [][\A p \in Procs :
          ComposerReturns(p) =>
              /\ db'[h[p].user].delivery_count = db[h[p].user].delivery_count + 1
              /\ db'[h[p].user].last_challenge = Returned(p)]_vars

\* C7: when the stored last_challenge_date equals today, update_streak
\* returns the stored streak and goes on without a write; and as long as the
\* stored date is today's, no step changes streak_days or
\* last_challenge_date (requests handled one after another).
C7_StreakIdempotent ==
    [][/\ \A p \in Procs :
            (/\ h[p].pc = "streak_read" /\ h'[p].pc # "streak_read"
             /\ db[h[p].user].exists
             /\ db[h[p].user].last_challenge_date = h[p].s_today)
            => /\ h'[p].pc = "generate"
               /\ h'[p].current_streak = db[h[p].user].streak_days
               /\ db' = db
       /\ \A u \in Users :
            (db[u].exists /\ db[u].last_challenge_date = clock /\ clock' = clock)
            => /\ db'[u].streak_days = db[u].streak_days
               /\ db'[u].last_challenge_date = db[u].last_challenge_date]_vars

\* A second assignment of the day has passed update_streak.
C7_Witness ==
    \E p \in Procs :
        /\ h[p].pc = "generate"
        /\ chal[h[p].user][clock] >= 1
        /\ db[h[p].user].last_challenge_date = clock
        /\ h[p].current_streak = db[h[p].user].streak_days

\* C8: when there is no stored last_challenge_date, or it is more than one
\* day before today, or it is after today, update_streak computes the streak
\* 1, whatever the stored streak.
C8_StreakReset ==
    [][\A p \in Procs :
          (h[p].pc = "streak_read" /\ h'[p].pc # "streak_read") =>
              LET u == h[p].user
                  last == IF db[u].exists THEN db[u].last_challenge_date
                          ELSE NoDate
              IN (last = NoDate \/ h[p].s_today - last > 1 \/ last > h[p].s_today)
                     => h'[p].current_streak = 1]_vars

\* update_streak has just read a date after its own today, with a stored
\* streak of 2 or more, and computed 1.
C8_Witness ==
    \E p \in Procs :
        /\ h[p].pc = "streak_write"
        /\ db[h[p].user].last_challenge_date > h[p].s_today
        /\ db[h[p].user].streak_days >= 2
        /\ h[p].current_streak = 1

\* C9: when the stored last_challenge_date is the day before today,
\* update_streak computes the stored streak + 1; every call that is not the
\* same-day short-circuit goes on to the write, after which the row holds
\* the returned streak and today's date.
C9_StreakAdvance ==
    [][\A p \in Procs :
          /\ (h[p].pc = "streak_read" /\ h'[p].pc # "streak_read") =>
                LET u == h[p].user
                    last == IF db[u].exists THEN db[u].last_challenge_date
                            ELSE NoDate
                    prior == IF db[u].exists THEN db[u].streak_days ELSE 0
                IN /\ (last # NoDate /\ h[p].s_today - last = 1)
                          => h'[p].current_streak = prior + 1
                   /\ last # h[p].s_today => h'[p].pc = "streak_write"
          /\ (h[p].pc = "streak_write" /\ h'[p].pc # "streak_write") =>
                /\ db'[h[p].user].exists
                /\ db'[h[p].user].streak_days = h[p].current_streak
                /\ db'[h[p].user].last_challenge_date = h[p].s_today
                /\ h'[p].pc = "generate"
                /\ h'[p].current_streak = h[p].current_streak]_vars

\* update_streak has read yesterday's date and a streak of 1 or more, and
\* is about to write the streak + 1.
C9_Witness ==
    \E p \in Procs :
        /\ h[p].pc = "streak_write"
        /\ db[h[p].user].last_challenge_date # NoDate
        /\ db[h[p].user].last_challenge_date = h[p].s_today - 1
        /\ db[h[p].user].streak_days >= 1
        /\ h[p].current_streak = db[h[p].user].streak_days + 1

\* C10: in every state of a user's row, streak_days = 0 implies
\* last_challenge_date is NULL.
C10_ZeroStreakNoDate ==
    \A u \in Users :
        (db[u].exists /\ db[u].streak_days = 0)
            => db[u].last_challenge_date = NoDate

\* A row whose date is set, after assignments, feedback and a settings
\* update.
C10_Witness ==
    /\ db["u1"].exists
    /\ db["u1"].last_challenge_date # NoDate
    /\ db["u1"].streak_days >= 1
    /\ db["u1"].level = "mystery"
    /\ db["u1"].success_count >= 1

\* The step on which generate_challenge_with_ai is called and returns or
\* raises.
GenerateStep(p) == h[p].pc = "generate" /\ h'[p].pc # "generate"

\* The decision table of the difficulty adjuster on the three counts.
Directive(d, s, f) ==
    IF d < 2 THEN ""
    ELSE IF 10 * s > 7 * d THEN "escalate"
    ELSE IF 10 * f > 6 * d THEN "deescalate"
    ELSE IF 10 * s > 4 * d /\ 10 * f <= 4 * d THEN "hold"
    ELSE "holdvary"

\* C11: the directive put into the generator's request is none when
\* delivery_count < 2, and otherwise escalate if success rate > 0.7, else
\* deescalate if difficulty rate > 0.6, else hold if success rate > 0.4 and
\* difficulty rate <= 0.4, else holdvary: exactly one of the five, computed
\* from the counts of the record before this assignment's increment (the
\* step writes nothing).
C11_DirectiveTable ==
    [][\A p \in Procs :
          (GenerateStep(p) /\ h[p].settings.level \in KnownLevels) =>
              LET row == db[h[p].user] IN
              /\ asked'.sent
              /\ asked'.adjustment = Directive(row.delivery_count,
                                               row.success_count,
                                               row.difficulty_count)
              /\ asked'.adjustment
                     \in {"", "escalate", "deescalate", "hold", "holdvary"}
              /\ db' = db]_vars

\* The request has been sent for a record with 7 successes and 3
\* difficulty reports on 10 assignments: exactly 0.7, so no escalation.
C11_Witness ==
    /\ h["h1"].pc = "inc_read"
    /\ asked.sent /\ asked.adjustment = "hold"
    /\ db["u1"].delivery_count = 10
    /\ db["u1"].success_count = 7
    /\ db["u1"].difficulty_count = 3

\* C12: on every record the composer works on, both rates are well
\* defined (no division by zero), both are 0 when delivery_count = 0, and
\* when success_count <= delivery_count and difficulty_count <=
\* delivery_count both lie in [0, 1].
C12_RatesWithinUnit ==
    \A u \in Users :
        db[u].exists =>
            LET sr == success_rate(db[u])
                dr == difficulty_rate(db[u])
            IN /\ sr[2] > 0 /\ dr[2] > 0
               /\ db[u].delivery_count = 0 => (sr[1] = 0 /\ dr[1] = 0)
               /\ (/\ db[u].success_count <= db[u].delivery_count
                   /\ db[u].difficulty_count <= db[u].delivery_count)
                  => /\ 0 <= sr[1] /\ sr[1] <= sr[2]
                     /\ 0 <= dr[1] /\ dr[1] <= dr[2]

\* The request has been sent for a record with reports but no assignment.
C12_Witness ==
    /\ asked.sent
    /\ db["u1"].delivery_count = 0
    /\ db["u1"].success_count > 0
    /\ db["u1"].difficulty_count > 0

\* The milestone condition on a streak value.
MilestoneFires(n) == n > 0 /\ n % 10 = 0 /\ n <= 100

\* C13: the milestone reminder is put into the request if and only if the
\* streak is > 0, divisible by 10 and <= 100; a generated text carries the
\* milestone block of that streak value in that case and none otherwise,
\* the block depending on the streak value alone (50: 60 seconds, 8.0
\* points).
C13_MilestoneFiring ==
    [][\A p \in Procs :
          (GenerateStep(p) /\ h[p].settings.level \in KnownLevels) =>
              LET n == h[p].current_streak IN
              /\ asked'.reminder = MilestoneFires(n)
              /\ asked'.ok =>
                    /\ h'[p].challenge.ms = IF MilestoneFires(n) THEN n ELSE 0
                    /\ MilestoneFires(n) => n \in DOMAIN challenge_info
                    /\ n = 50 => challenge_info[n] = [duration |-> 60,
                                                      target |-> 80]]_vars

\* A text has been generated on the 50th day of a streak.
C13_Witness ==
    /\ h["h1"].pc = "inc_read"
    /\ asked.ok /\ asked.reminder
    /\ db["u1"].streak_days = 50
    /\ h["h1"].challenge.ms = 50

\* C14: whenever the milestone condition holds for the streak of the call,
\* the text generate_challenge_with_ai returns carries the milestone block,
\* whether the generator answered or the static fallback was substituted.
C14_MilestoneAlwaysAppended ==
    [][\A p \in Procs :
          (/\ GenerateStep(p) /\ h[p].settings.level \in KnownLevels
           /\ MilestoneFires(h[p].current_streak))
          => h'[p].challenge.ms = h[p].current_streak]_vars

C16_IncrementAfterText ==
    [][/\ \A u \in Users :
            (db[u].exists /\ db'[u].delivery_count # db[u].delivery_count) =>
                \E p \in Procs :
                    /\ h[p].user = u /\ h[p].pc = "inc_write"
                    /\ h[p].challenge.kind \in {"generated", "fallback"}
                    /\ db'[u].delivery_count = db[u].delivery_count + 1
                    /\ db'[u].last_challenge = h[p].challenge
       /\ \A p \in Procs :
            /\ (GenerateStep(p) /\ asked' # asked /\ ~asked'.ok) =>
                    /\ h'[p].pc = "inc_read"
                    /\ h'[p].challenge.kind = "fallback"
                    /\ db' = db
            /\ (/\ h[p].pc \in {"inc_read", "inc_write"}
                /\ h[p].challenge.kind = "fallback"
                /\ h'[p].pc # h[p].pc) =>
                    IF h[p].pc = "inc_read"
                    THEN h'[p].pc = "inc_write" /\ db' = db
                    ELSE db'[h[p].user].delivery_count
                             = db[h[p].user].delivery_count + 1]_vars

\* A call that ended in the fallback has written the count.
C16_Witness ==
    /\ db["u1"].exists
    /\ db["u1"].last_challenge.kind = "fallback"
    /\ db["u1"].delivery_count = 2
    /\ reply["h1"].kind = "challenge"
    /\ reply["h1"].text.kind = "fallback"

\* C17: every text message is answered: when the handler of a message
\* ends, it has handed a reply to the messaging API, also when a storage
\* read or write made for the message has failed.
C17_AlwaysReplies ==
    [][\A p \in Procs :
          (h[p].pc # "idle" /\ h'[p].pc = "idle") => reply'[p] # NoReply]_vars

\* The record get_user_settings has returned to the caller in slot p on
\* this step.
GusReturns(p) ==
    /\ h[p].pc \in {"gus_select", "gus_insert"}
    /\ h'[p].pc \notin {"gus_select", "gus_insert"}

\* C18: get_user_settings never raises: its caller always goes on, with
\* the stored record or with the default record (counters 0, level
\* beginner, tone gentle, no last text, no last date, flags 0); and when it
\* is the default record for a user who has a record, the store is as it
\* was.
C18_ReadDegradation ==
    [][\A p \in Procs :
          GusReturns(p) =>
              LET u == h[p].user
                  got == IF h[p].where = "composer" THEN h'[p].csettings
                         ELSE h'[p].settings
                  dflt == [level |-> "beginner", nickname |-> NoName,
                           coach_personality |-> "gentle",
                           delivery_count |-> 0, success_count |-> 0,
                           difficulty_count |-> 0, support_shown |-> 0,
                           last_challenge |-> NoText, streak_days |-> 0,
                           last_challenge_date |-> NoDate,
                           received_welcome_stamp |-> 0]
                  goes_on == IF h[p].where = "composer"
                             THEN h'[p].pc = "streak_clock"
                             ELSE /\ h[p].text = "imasugu"
                                     => h'[p].pc = "imm_clock"
                                  /\ h[p].text \in {"dekita", "muzukashikatta"}
                                     => h'[p].pc = "fb_read"
                                  /\ h[p].text \in {"settei", "other"}
                                     => reply'[p] # NoReply
              IN /\ goes_on
                 /\ h[p].where = "composer" =>
                        \/ db[u].exists /\ got = SettingsOf(db[u])
                        \/ got = dflt
                 /\ (h[p].where = "handler" /\ h'[p].pc # "idle") =>
                        \/ db[u].exists /\ got = Kept(SettingsOf(db[u]))
                        \/ got = Kept(dflt)
                 /\ db[u].exists => db' = db]_vars

\* The composer works on the default record although the user's record
\* holds three assignments.
C18_Witness ==
    /\ h["h1"].pc = "streak_clock"
    /\ h["h1"].csettings.delivery_count = 0
    /\ h["h1"].csettings.last_challenge = NoText
    /\ db["u1"].exists
    /\ db["u1"].delivery_count = 3

\* C19: in the composer, a step of update_streak's write either stores the
\* streak and today's date or leaves the record as it was, and a step of
\* the count's write either stores the count and the text or leaves the
\* record as it was; in both cases the composer goes on, and whenever it
\* returns, handle_message replies with a challenge text.
C19_ComposerWriteFailure ==
    [][\A p \in Procs :
          LET u == h[p].user IN
          /\ (h[p].pc = "streak_write" /\ h'[p].pc # "streak_write") =>
                /\ h'[p].pc = "generate"
                /\ \/ db' = db
                   \/ db' = [db EXCEPT ![u].streak_days = h[p].current_streak,
                                       ![u].last_challenge_date = h[p].s_today]
          /\ (h[p].pc = "inc_write" /\ h'[p].pc # "inc_write") =>
                /\ h'[p].pc \in {"idle", "mark_support"}
                /\ \/ db' = db
                   \/ db' = [db EXCEPT ![u].delivery_count = h[p].current_count + 1,
                                       ![u].last_challenge = h[p].challenge]
          /\ (h[p].where = "composer" /\ h'[p].pc = "idle") =>
                /\ reply'[p].kind = "challenge"
                /\ reply'[p].text.kind \in {"generated", "fallback", "default"}]_vars

\* The challenge has been sent although neither the streak nor the count
\* could be written: the record is as it was.
C19_Witness ==
    /\ reply["h1"].kind = "challenge"
    /\ reply["h1"].text.kind = "generated"
    /\ asked.sent /\ asked.ok
    /\ db["u1"].delivery_count = 1
    /\ db["u1"].streak_days = 9
    /\ db["u1"].last_challenge_date = clock - 1

\* C20: every recognised command text is dispatched to its command whatever
\* the user's delivery_count; the onboarding message is sent only for a
\* text that is no command from a user with delivery_count = 0, the help
\* menu only for such a text from a user with delivery_count > 0.
C20_CommandDispatch ==
    [][\A p \in Procs :
          (GusReturns(p) /\ h[p].where = "handler") =>
              LET t == h[p].text
                  u == h[p].user
                  count == IF db[u].exists THEN db[u].delivery_count ELSE 0
                  commands == {"settei", "ranking", "imasugu"}
                                  \cup SuccessTexts \cup DifficultyTexts
                                  \cup ReferralTexts
              IN /\ t = "settei" => reply'[p].kind = "settings_link"
                 /\ t = "ranking" => reply'[p].kind = "ranking_link"
                 /\ t = "imasugu" => h'[p].pc = "imm_clock"
                 /\ t \in SuccessTexts \cup DifficultyTexts
                        => h'[p].pc = "fb_read"
                 /\ t \in ReferralTexts => reply'[p].kind = "referral"
                 /\ reply'[p].kind = "onboarding"
                        => (t \notin commands /\ count = 0)
                 /\ reply'[p].kind = "help"
                        => (t \notin commands /\ count > 0)]_vars

\* C21: requests handled one after another: while the record of a user
\* holds today's date and a daily count of 3 or more, no step of the
\* handler of an on-demand request of that user changes the record (counts,
\* streak and its date, last text, daily count and its date, support flag)
\* or sends a request to the generator; the handler ends after the select
\* of the daily count, with the denial as its reply.
C21_DeniedChangesNothing ==
    [][\A p \in Procs :
          LET u == h[p].user IN
          (/\ h[p].pc # "idle" /\ h'[p] # h[p]
           /\ h[p].text = "imasugu" /\ h[p].where = "handler"
           /\ db[u].exists
           /\ db[u].last_immediate_request_date = clock
           /\ db[u].immediate_request_count >= DailyLimit)
          => /\ db' = db
             /\ asked' = asked
             /\ chal' = chal
             /\ h'[p].pc \in {"imm_clock", "imm_read", "idle"}
             /\ h'[p].pc = "idle" =>
                    /\ h[p].pc = "imm_read"
                    /\ reply'[p] = Plain("denial")]_vars

\* A fourth request of the day has been denied; the record is that of the
\* three assignments.
C21_Witness ==
    /\ AllIdle
    /\ reply["h1"].kind = "denial"
    /\ denied["u1"][clock] = 1
    /\ db["u1"].delivery_count = DailyLimit
    /\ db["u1"].immediate_request_count = DailyLimit
    /\ db["u1"].last_immediate_request_date = clock
    /\ db["u1"].support_shown = 0

\* C22: requests handled one after another: when the stored date of the
\* daily count is not today's (or is NULL), the count is taken as 0
\* whatever the stored value: the handler writes count 0 with today's date,
\* is not denied, writes count 1 with today's date and calls the composer,
\* and the request is answered with a challenge.
C22_DailyReset ==
    [][\A p \in Procs :
          LET u == h[p].user IN
          /\ (/\ h[p].pc = "imm_read" /\ h'[p].pc # "imm_read"
              /\ db[u].exists /\ db[u].last_immediate_request_date # h[p].today)
             => /\ h'[p].pc = "imm_reset"
                /\ h'[p].immediate_count = 0
                /\ reply'[p] = NoReply
          /\ (h[p].pc = "imm_reset" /\ h'[p].pc # "imm_reset")
             => /\ h'[p].pc = "imm_incr"
                /\ h'[p].immediate_count = 0
                /\ reply'[p] = NoReply
                /\ db'[u].immediate_request_count = 0
                /\ db'[u].last_immediate_request_date = h[p].today
          /\ (/\ h[p].pc = "imm_incr" /\ h'[p].pc # "imm_incr"
              /\ h[p].immediate_count = 0)
             => /\ h'[p].pc = "gus_select" /\ h'[p].where = "composer"
                /\ db'[u].immediate_request_count = 1
                /\ db'[u].last_immediate_request_date = h[p].today
                /\ h[p].today = clock
          /\ (h[p].where = "composer" /\ h'[p].pc = "idle")
             => /\ reply'[p].kind = "challenge"
                /\ chal'[u][h[p].today] = chal[u][h[p].today] + 1]_vars

\* The day after three on-demand challenges (stored count 3), a request has
\* been answered with a challenge and the stored count is 1 with the new
\* day's date.
C22_Witness ==
    /\ AllIdle
    /\ clock = 2
    /\ chal["u1"][1] = DailyLimit
    /\ chal["u1"][2] = 1
    /\ db["u1"].immediate_request_count = 1
    /\ db["u1"].last_immediate_request_date = 2

\* The step on which update_user_settings writes.
SetWrites(p) == h[p].pc = "set_write" /\ h'[p].pc # "set_write"

\* C23: a settings update leaves the stored value of every field it does
\* not specify as it was: a posted form without the level field leaves the
\* level, one without the tone field leaves the tone, one without the
\* nickname field or with an empty nickname leaves the nickname.
C23_SettingsRetention ==
    [][\A p \in Procs :
          LET u == h[p].user
              form == h[p].form
          IN (SetWrites(p) /\ db[u].exists) =>
                /\ db'[u].exists
                /\ form.level = None => db'[u].level = db[u].level
                /\ form.coach_personality = None
                       => db'[u].coach_personality = db[u].coach_personality
                /\ form.nickname \in {NoName, <<>>}
                       => db'[u].nickname = db[u].nickname]_vars

\* C24: the stored nickname never has more than 10 code points: a posted
\* name that is longer (after strip) is stored cut to its first 10 code
\* points, and the level and tone of the same form are stored with it.
C24_NicknameBounded ==
    [][/\ \A u \in Users :
            (db'[u].exists /\ db'[u].nickname # NoName)
                => Len(db'[u].nickname) <= 10
       /\ \A p \in Procs :
            LET u == h[p].user
                form == h[p].form
                name == IF form.nickname = NoName THEN <<>>
                        ELSE Strip(form.nickname)
            IN (SetWrites(p) /\ Len(name) > 10) =>
                  /\ db'[u].exists
                  /\ db'[u].nickname = [i \in 1..10 |-> name[i]]
                  /\ form.level # None => db'[u].level = form.level
                  /\ form.coach_personality # None
                         => db'[u].coach_personality = form.coach_personality]_vars

\* A name of 11 code points has been posted with a level and a tone; its
\* first 10 code points are stored, with the level and the tone.
C24_Witness ==
    /\ AllIdle
    /\ db["u1"].exists
    /\ db["u1"].nickname = [i \in 1..10 |-> 100 * 11 + i]
    /\ db["u1"].level = "elite"
    /\ db["u1"].coach_personality = "strict"

\* C25: once support_shown, or received_welcome_stamp, of a user's record
\* is 1, no step of any handler (assignment, feedback, settings update,
\* get_user_settings on first contact) sets it back to 0, and the record
\* stays, whatever the interleaving of the handlers.
C25_FlagsOneShot ==
    [][\A u \in Users :
          db[u].exists =>
              /\ db'[u].exists
              /\ db[u].support_shown = 1 => db'[u].support_shown = 1
              /\ db[u].received_welcome_stamp = 1
                     => db'[u].received_welcome_stamp = 1]_vars

\* Both flags of u1 are 1, and a success report of u1 has been handled
\* after the request that was answered with the support message.
C25_Witness ==
    /\ AllIdle /\ events = 2
    /\ reply["h1"].kind = "praise"
    /\ reply["h2"] = NoReply
    /\ db["u1"].exists
    /\ db["u1"].support_shown = 1
    /\ db["u1"].received_welcome_stamp = 1
    /\ db["u1"].success_count = 1

\* C26: the support message is sent to a user at most once, whatever the
\* interleaving of the handlers: it is only ever sent to a user whose
\* record does not yet say that it has been sent (every sending stores
\* support_shown = 1, and the flag is never reset), and only together with
\* a challenge, by a handler that found 3 or more assignments in the user's
\* record.
C26_SupportOnce ==
    [][\A p \in Procs :
          (h[p].pc # "idle" /\ h'[p].pc = "idle" /\ reply'[p].support) =>
              LET u == h[p].user IN
              /\ db[u].exists
              /\ db[u].support_shown = 0
              /\ reply'[p].kind = "challenge"
              /\ h[p].settings.delivery_count >= 3]_vars

\* C27: a step of the handler of a request of one user leaves the record
\* of every other user as it was, whatever the interleaving; the arrival
\* of a request changes no record.
C27_CrossUserIndependence ==
    [][\A p \in Procs :
          h'[p] # h[p] =>
              IF h[p].pc = "idle" THEN db' = db
              ELSE \A v \in Users : v # h[p].user => db'[v] = db[v]]_vars

\* The handlers of an on-demand request of u1 and of a success report of
\* u2 are both about to write, each having written before or not, and both
\* users have a record.
C27_Witness ==
    /\ h["h1"].user = "u1" /\ h["h1"].pc = "inc_write"
    /\ h["h2"].user = "u2" /\ h["h2"].pc = "fb_write"
    /\ db["u1"].exists /\ db["u1"].immediate_request_count = 2
    /\ db["u2"].exists /\ db["u2"].delivery_count = SupportThreshold

\* C28: the first request ever of a user without a record, an on-demand
\* request: get_user_settings creates the record with level beginner and
\* the request passes the first-contact check; when its handler ends, the
\* record holds delivery_count 1, streak_days 1, last_challenge_date today,
\* daily count 1 with today's date, and the reply is a challenge (generated
\* or fallback) without milestone block and without support message.
C28_FirstRequest ==
    [][\A p \in Procs :
          LET u == h[p].user IN
          /\ (/\ h[p].pc = "gus_insert" /\ h'[p].pc # "gus_insert"
              /\ h[p].where = "handler" /\ h[p].text = "imasugu")
             => /\ h'[p].pc = "imm_clock"
                /\ h'[p].settings.level = "beginner"
                /\ db'[u].exists /\ db'[u].level = "beginner"
          /\ (h[p].where = "composer" /\ h'[p].pc = "idle" /\ events = 1)
             => /\ db'[u].delivery_count = 1
                /\ db'[u].streak_days = 1
                /\ db'[u].last_challenge_date = clock
                /\ db'[u].immediate_request_count = 1
                /\ db'[u].last_immediate_request_date = clock
                /\ reply'[p].kind = "challenge"
                /\ reply'[p].text.kind \in {"generated", "fallback"}
                /\ reply'[p].text.ms = 0
                /\ ~reply'[p].support
                /\ db'[u].last_challenge = reply'[p].text]_vars

\* The first request of u1 has been answered with a challenge on day 2.
C28_Witness ==
    /\ AllIdle /\ events = 1 /\ clock = 2
    /\ reply["h1"].kind = "challenge"
    /\ db["u1"].exists
    /\ db["u1"].delivery_count = 1
    /\ db["u1"].streak_days = 1
    /\ db["u1"].last_challenge_date = 2

\* The selects a call of create_challenge_message has made when it stands
\* at position pc: get_user_settings' before update_streak is entered,
\* update_streak's before its write or the generator, and
\* increment_delivery_count's before its write.
SelectsMade(pc) ==
    CASE pc = "gus_select" -> 0
      [] pc \in {"gus_insert", "streak_clock", "streak_read"} -> 1
      [] pc \in {"streak_write", "generate", "inc_read"} -> 2
      [] pc = "inc_write" -> 3
      [] OTHER -> 0

\* C29: a call of create_challenge_message makes one read of the user's
\* record, followed by one write, and no further storage read or write:
\* wherever the call stands it has made at most one select, and a step of
\* the call that writes the record ends the call's storage accesses.
C29_OneReadWriteCycle ==
    [][\A p \in Procs :
          h[p].where = "composer" =>
              /\ SelectsMade(h[p].pc) <= 1
              /\ (h[p].pc \in {"streak_write", "inc_write"} /\ db' # db)
                     => h'[p].pc \in {"idle", "mark_support"}]_vars

\* C30: the table of special challenges has an entry for every multiple of
\* 10 up to 100 and none beyond; from each milestone to the next neither
\* the duration nor the target decreases; the entry of 100 closes the
\* series, with the longest duration, the highest target and the finale
\* message.  Stated on the texts generated for the streaks 1 to MaxStreak.
C30_MilestoneTableShape ==
    [][\A p \in Procs :
          (/\ GenerateStep(p) /\ h[p].settings.level \in KnownLevels
           /\ asked'.ok) =>
              LET n == h[p].current_streak
                  ms == h'[p].challenge.ms
              IN /\ (n > 0 /\ n % 10 = 0 /\ n <= 100)
                        => (ms = n /\ n \in DOMAIN challenge_info)
                 /\ n > 100 => ms = 0
                 /\ DOMAIN challenge_info = {10 * k : k \in 1..10}
                 /\ (ms # 0 /\ ms > 10) =>
                        /\ challenge_info[ms].duration
                               >= challenge_info[ms - 10].duration
                        /\ challenge_info[ms].target
                               >= challenge_info[ms - 10].target
                 /\ ms = 100 =>
                        /\ challenge_message[ms] = "finale"
                        /\ \A k \in DOMAIN challenge_info :
                              /\ challenge_info[k].duration
                                     <= challenge_info[ms].duration
                              /\ challenge_info[k].target
                                     <= challenge_info[ms].target
                              /\ k # ms => challenge_message[k] # "finale"]_vars

\* A text has been generated on the 100th day of a streak, and carries the
\* block of 100.
C30_Witness ==
    /\ h["h1"].pc = "inc_read"
    /\ asked.sent /\ asked.ok
    /\ db["u1"].streak_days = 100
    /\ db["u1"].last_challenge_date = clock
    /\ h["h1"].challenge.ms = 100

\* The occurrences of a group in a combo.
Count(c, group) == Cardinality({i \in 1..Len(c) : c[i] = group})

\* The combo of the text the generator has answered with on this step.
Answered(p) == combo(h'[p].challenge.a)

\* The step on which a generated text is let through for a known level.
ComboStep(p) ==
    /\ GenerateStep(p) /\ h[p].settings.level \in KnownLevels
    /\ asked'.ok

\* C31: for every level, a combo that is let through has at most one move
\* of an exclusive group (CL, AS, TS), and if it has one, it is the last
\* move of the combo.
C31_ExclusiveLast ==
    [][\A p \in Procs :
          ComboStep(p) =>
              /\ Count(Answered(p), "exclusive") <= 1
              /\ \A i \in 1..Len(Answered(p)) :
                    Answered(p)[i] = "exclusive" => i = Len(Answered(p))]_vars

\* C32: for every level, the combo given under the escalate directive is
\* never longer than the longest combo of the level, and the combo given
\* under the deescalate directive has at least one move.
C32_EscalationBounded ==
    [][\A p \in Procs :
          ComboStep(p) =>
              /\ asked'.adjustment = "escalate"
                    => Len(Answered(p)) <= max_combo[h[p].settings.level]
              /\ asked'.adjustment = "deescalate"
                    => Len(Answered(p)) >= 1]_vars

\* The phase of an elite user, from success_count.
Phase(success_count) ==
    IF success_count <= 2 THEN 1 ELSE IF success_count <= 9 THEN 2 ELSE 3

\* C33: for an elite user the phase given by success_count (0-2: 1, 3-9:
\* 2, 10 and more: 3) never goes back, and a combo let through has one
\* peak move at most, and none before phase 3.
C33_ElitePhase ==
    [][/\ \A u \in Users :
            (db[u].exists /\ db[u].level = "elite") =>
                Phase(db'[u].success_count) >= Phase(db[u].success_count)
       /\ \A p \in Procs :
            (ComboStep(p) /\ h[p].settings.level = "elite") =>
                Count(Answered(p), "peak")
                    <= (IF Phase(h[p].csettings.success_count) = 3
                        THEN 1 ELSE 0)]_vars

\* C34: on-demand requests of one user handled concurrently within one
\* day: every write of the streak stores today's date and a streak at most
\* 1 above the stored one, and once the stored date is today's no step
\* changes the streak or the date; so the requests of the day advance the
\* streak by at most 1 in all, however their reads and writes interleave.
C34_NoDoubleAdvance ==
    [][\A u \in Users :
          db[u].exists =>
              /\ db'[u].streak_days <= db[u].streak_days + 1
              /\ db'[u].streak_days # db[u].streak_days
                     => db'[u].last_challenge_date = clock
              /\ db[u].last_challenge_date = clock
                     => /\ db'[u].streak_days = db[u].streak_days
                        /\ db'[u].last_challenge_date = clock]_vars

\* A request has advanced the streak from 9 to 10 while another, which
\* read the streak 9 before, is about to write.
C34_Witness ==
    /\ h["h2"].pc = "streak_write" /\ h["h2"].current_streak = 10
    /\ h["h1"].pc \in {"generate", "inc_read", "inc_write"}
    /\ db["u1"].streak_days = 10
    /\ db["u1"].last_challenge_date = clock

\* C39: the milestone block of a streak value is appended to at most one
\* challenge of a streak run: no text is generated with the block of n for
\* a user whose last stored challenge, of the same day, carries the block
\* of n already.
C39_MilestoneOncePerRun ==
    [][\A p \in Procs :
          (GenerateStep(p) /\ h'[p].challenge.ms # 0)
          => ~(/\ db[h[p].user].last_challenge.ms = h'[p].challenge.ms
               /\ db[h[p].user].last_challenge_date = clock)]_vars

\* C35: the stored daily on-demand count of a user is at most 3 in every
\* reachable state, however on-demand requests follow or overlap each
\* other, also where more than 3 challenges were delivered on one day.
C35_StoredCountBounded ==
    \A u \in Users :
        db[u].exists => db[u].immediate_request_count <= DailyLimit

\* Overlapping requests got more than 3 challenges delivered on one day,
\* and the stored count is 3.
C35_Witness ==
    /\ db["u1"].exists
    /\ db["u1"].immediate_request_count = DailyLimit
    /\ \E d \in 1..MaxDay : chal["u1"][d] > DailyLimit

\* The decision table with rule 2 (deescalate) tested before rule 1
\* (escalate).
DirectiveSwapped(d, s, f) ==
    IF d < 2 THEN ""
    ELSE IF 10 * f > 6 * d THEN "deescalate"
    ELSE IF 10 * s > 7 * d THEN "escalate"
    ELSE IF 10 * s > 4 * d /\ 10 * f <= 4 * d THEN "hold"
    ELSE "holdvary"

\* C37: on a record the rules are tested on (delivery_count >= 2), the
\* escalate condition (success rate > 0.7) and the deescalate condition
\* (difficulty rate > 0.6) do not hold together while success_count +
\* difficulty_count <= delivery_count, and the directive put into the
\* request is then the one the table gives with rules 1 and 2 swapped; on
\* a record where both hold, the directive is escalate.
C37_RuleOrder ==
    [][\A p \in Procs :
          (/\ GenerateStep(p) /\ h[p].settings.level \in KnownLevels
           /\ db[h[p].user].delivery_count >= 2) =>
              LET row == db[h[p].user]
                  esc == Exceeds(success_rate(row), 7)
                  de == Exceeds(difficulty_rate(row), 6)
              IN /\ row.success_count + row.difficulty_count
                        <= row.delivery_count
                    => /\ ~(esc /\ de)
                       /\ asked'.adjustment =
                              DirectiveSwapped(row.delivery_count,
                                               row.success_count,
                                               row.difficulty_count)
                 /\ (esc /\ de) => asked'.adjustment = "escalate"]_vars

\* The request has been sent for a record with 8 successes and 7
\* difficulty reports on 10 assignments: both conditions hold, and the
\* directive is escalate.
C37_Witness ==
    /\ h["h1"].pc = "inc_read"
    /\ asked.sent /\ asked.adjustment = "escalate"
    /\ db["u1"].delivery_count = 10
    /\ db["u1"].success_count = 8
    /\ db["u1"].difficulty_count = 7

\* C38: in every reachable state, a record with delivery_count > 0 has a
\* last challenge text: increment_delivery_count writes the count and the
\* text in one update, however the requests interleave.
C38_CountImpliesText ==
    \A u \in Users :
        (db[u].exists /\ db[u].delivery_count > 0)
            => db[u].last_challenge # NoText

\* Two requests read the count 0; one has written count 1 with its text,
\* the other is about to write.
C38_Witness ==
    /\ db["u1"].exists
    /\ db["u1"].delivery_count = 1
    /\ db["u1"].last_challenge # NoText
    /\ \E p \in Procs : h[p].pc = "inc_write" /\ h[p].current_count = 0

\* C36: once a user has been sent a challenge in reply to an on-demand
\* request, every later text of that user that is no command is answered
\* with the help menu, never with the onboarding message, whatever level a
\* settings update has stored in the record.
C36_HelpAfterFirstChallenge ==
    [][\A p \in Procs :
          (/\ GusReturns(p) /\ h[p].where = "handler"
           /\ h[p].text \notin ({"settei", "ranking", "imasugu"}
                                   \cup SuccessTexts \cup DifficultyTexts
                                   \cup ReferralTexts)
           /\ Issued(h[p].user) >= 1)
          => reply'[p].kind = "help"]_vars

====
